---------------------------- MODULE Spec2Model ----------------------------
(***************************************************************************)
(* A model of gotots (src/gotots.py): GoFileParser.parse, the three        *)
(* writers of TypeScriptClassWriter and _main.                             *)
(*                                                                         *)
(* A Python string is a sequence of one-character strings.  A regular      *)
(* expression is a tree, matched by backtracking in Python's priority      *)
(* order (greedy quantifiers, leftmost start), so that the groups a match  *)
(* captures are the groups Python's re captures.                           *)
(***************************************************************************)
EXTENDS Integers, Sequences, FiniteSets, TLC

(***************************************************************************)
(* Character classes of Python's re.                                       *)
(***************************************************************************)
Lower == {"a","b","c","d","e","f","g","h","i","j","k","l","m",
          "n","o","p","q","r","s","t","u","v","w","x","y","z"}

Upper == {"A","B","C","D","E","F","G","H","I","J","K","L","M",
          "N","O","P","Q","R","S","T","U","V","W","X","Y","Z"}

Digit == {"0","1","2","3","4","5","6","7","8","9"}

\* \s
Space == {" ", "\t", "\n", "\r", "\f"}

\* the backquote character, which a TLA+ string literal cannot hold
BQ == "BQ"

\* \w
WordCh == Lower \cup Upper \cup Digit \cup {"_"}

LowerOf(c) ==
  CASE c = "A" -> "a" [] c = "B" -> "b" [] c = "C" -> "c" [] c = "D" -> "d"
    [] c = "E" -> "e" [] c = "F" -> "f" [] c = "G" -> "g" [] c = "H" -> "h"
    [] c = "I" -> "i" [] c = "J" -> "j" [] c = "K" -> "k" [] c = "L" -> "l"
    [] c = "M" -> "m" [] c = "N" -> "n" [] c = "O" -> "o" [] c = "P" -> "p"
    [] c = "Q" -> "q" [] c = "R" -> "r" [] c = "S" -> "s" [] c = "T" -> "t"
    [] c = "U" -> "u" [] c = "V" -> "v" [] c = "W" -> "w" [] c = "X" -> "x"
    [] c = "Y" -> "y" [] c = "Z" -> "z" [] OTHER -> c

\* str.lower()
StrLower(s) == [i \in 1..Len(s) |-> LowerOf(s[i])]

\* s[i:j] with 1-based i and exclusive 1-based j
Slice(s, i, j) == SubSeq(s, i, j - 1)

\* str.startswith
StartsWith(s, p) == Len(s) >= Len(p) /\ SubSeq(s, 1, Len(p)) = p

\* the in operator on strings: p is a substring of s
Contains(s, p) ==
  \E i \in 1..(Len(s) - Len(p) + 1) : SubSeq(s, i, i + Len(p) - 1) = p

\* str.strip(): leading and trailing whitespace removed
Strip(s) ==
  LET keep == {i \in 1..Len(s) : s[i] \notin Space}
  IN  IF keep = {} THEN <<>>
      ELSE SubSeq(s, CHOOSE i \in keep : \A j \in keep : i <= j,
                     CHOOSE i \in keep : \A j \in keep : i >= j)

RECURSIVE Join(_, _)
\* sep.join(parts)
Join(sep, parts) ==
  IF parts = <<>> THEN <<>>
  ELSE IF Len(parts) = 1 THEN parts[1]
  ELSE parts[1] \o sep \o Join(sep, Tail(parts))

(***************************************************************************)
(* Regular expressions.  A node is a tuple whose first element names it:   *)
(*   <<"lit", c>>      the character c                                     *)
(*   <<"set", S>>      [S]            <<"nset", S>>   [^S]                 *)
(*   <<"any">>         .  (any character but a newline)                    *)
(*   <<"bol">>         ^              <<"eol">>       $                    *)
(*   <<"cat", rs>>     the nodes of the sequence rs, one after another     *)
(*   <<"star", r>>     r*             <<"plus", r>>   r+                   *)
(*   <<"opt", r>>      r?             <<"grp", g, r>> (?P<g>r)             *)
(* Match yields the sequence of <<end, groups>> of every way r matches s   *)
(* from position i, in the order a backtracking matcher tries them; the    *)
(* head is the match Python reports.                                       *)
(***************************************************************************)
GroupNames == {"class", "field", "type", "json", "optional", "enum",
               "classname", "keyType", "valueType", "g1", "g2", "g3"}

\* a group that took no part in the match: m.group(g) is None
NoSpan == <<0, 0>>

NoGroups == [g \in GroupNames |-> NoSpan]

RECURSIVE Match(_, _, _, _)
RECURSIVE MatchCat(_, _, _, _, _)
RECURSIVE MatchEach(_, _, _, _)
RECURSIVE MatchStarEach(_, _, _, _)

Match(r, s, i, gs) ==
  CASE r[1] = "lit"  -> IF i <= Len(s) /\ s[i] = r[2]
                        THEN << <<i + 1, gs>> >> ELSE <<>>
    [] r[1] = "set"  -> IF i <= Len(s) /\ s[i] \in r[2]
                        THEN << <<i + 1, gs>> >> ELSE <<>>
    [] r[1] = "nset" -> IF i <= Len(s) /\ s[i] \notin r[2]
                        THEN << <<i + 1, gs>> >> ELSE <<>>
    [] r[1] = "any"  -> IF i <= Len(s) /\ s[i] # "\n"
                        THEN << <<i + 1, gs>> >> ELSE <<>>
    [] r[1] = "bol"  -> IF i = 1 THEN << <<i, gs>> >> ELSE <<>>
    [] r[1] = "eol"  -> IF i = Len(s) + 1 \/ (i = Len(s) /\ s[i] = "\n")
                        THEN << <<i, gs>> >> ELSE <<>>
    [] r[1] = "cat"  -> MatchCat(r[2], 1, s, i, gs)
    [] r[1] = "star" -> MatchStarEach(r[2], s, i, Match(r[2], s, i, gs))
                          \o << <<i, gs>> >>
    [] r[1] = "plus" -> MatchStarEach(r[2], s, -1, Match(r[2], s, i, gs))
    [] r[1] = "opt"  -> Match(r[2], s, i, gs) \o << <<i, gs>> >>
    [] r[1] = "grp"  -> LET ms == Match(r[3], s, i, gs)
                        IN  [j \in 1..Len(ms) |->
                               <<ms[j][1],
                                 [ms[j][2] EXCEPT ![r[2]] = <<i, ms[j][1]>>]>>]

\* the nodes rs[at..] one after another from position i
MatchCat(rs, at, s, i, gs) ==
  IF at > Len(rs) THEN << <<i, gs>> >>
  ELSE MatchEach(rs, at + 1, s, Match(rs[at], s, i, gs))

\* the rest rs[at..] after each way ms the node before it matched
MatchEach(rs, at, s, ms) ==
  IF ms = <<>> THEN <<>>
  ELSE MatchCat(rs, at, s, ms[1][1], ms[1][2])
         \o MatchEach(rs, at, s, Tail(ms))

\* r* continued after each way ms its body matched once more; an iteration
\* that consumed nothing (it ended at from) is not repeated
MatchStarEach(r, s, from, ms) ==
  IF ms = <<>> THEN <<>>
  ELSE (IF ms[1][1] = from THEN <<>>
        ELSE Match(<<"star", r>>, s, ms[1][1], ms[1][2]))
       \o MatchStarEach(r, s, from, Tail(ms))

\* the text of group g of a match, None when the group took no part
None == <<"None">>

\* pattern.match(s): the match at the start of s, as [ok, start, end, gs]
ReMatchAt(r, s, i) ==
  LET ms == Match(r, s, i, NoGroups)
  IN  IF ms = <<>> THEN [ok |-> FALSE, start |-> i, end |-> i, gs |-> NoGroups]
      ELSE [ok |-> TRUE, start |-> i, end |-> ms[1][1], gs |-> ms[1][2]]

ReMatch(r, s) == ReMatchAt(r, s, 1)

RECURSIVE ReSearchFrom(_, _, _)
\* the leftmost match starting at position i or later
ReSearchFrom(r, s, i) ==
  IF i > Len(s) + 1 THEN [ok |-> FALSE, start |-> i, end |-> i, gs |-> NoGroups]
  ELSE LET m == ReMatchAt(r, s, i)
       IN  IF m.ok THEN m ELSE ReSearchFrom(r, s, i + 1)

\* pattern.search(s)
ReSearch(r, s) == ReSearchFrom(r, s, 1)

\* m.group(g)
Group(m, s, g) ==
  IF m.gs[g] = NoSpan THEN None ELSE Slice(s, m.gs[g][1], m.gs[g][2])


(***************************************************************************)
(* The patterns of the program.                                            *)
(***************************************************************************)
\* the characters of s, one after another
Chars(s) == <<"cat", [i \in 1..Len(s) |-> <<"lit", s[i]>>]>>

NotSpace == <<"nset", Space>>

AnySpace == <<"set", Space>>

\* line 163, written token by token:  type (?P<class> [^\s]+ ) struct
re_class ==
  <<"cat", << Chars(<<"t","y","p","e"," ">>),
              <<"grp", "class", <<"plus", NotSpace>> >>,
              Chars(<<" ","s","t","r","u","c","t">>) >> >>

\* line 164:  (?P<field> [^\s]+ ) \s+ (?P<type> [^\s]+ ) \s+ BQ json:"
\*            (?P<json> [^," ]+ ) ,? (?P<optional> omitempty )? " BQ
re_field ==
  <<"cat", << <<"grp", "field", <<"plus", NotSpace>> >>,
              <<"plus", AnySpace>>,
              <<"grp", "type", <<"plus", NotSpace>> >>,
              <<"plus", AnySpace>>,
              Chars(<<BQ,"j","s","o","n",":","\"">>),
              <<"grp", "json", <<"plus", <<"nset", {",", "\"", " "}>> >> >>,
              <<"opt", <<"lit", ",">> >>,
              <<"opt", <<"grp", "optional",
                         Chars(<<"o","m","i","t","e","m","p","t","y">>)>> >>,
              Chars(<<"\"",BQ>>) >> >>

\* line 165:  ^ \s* const \( \s*
re_enum_open ==
  <<"cat", << <<"bol">>,
              <<"star", AnySpace>>,
              Chars(<<"c","o","n","s","t"," ","(">>),
              <<"star", AnySpace>> >> >>

\* line 166:  \s* (?P<enum> [^\s]+ ) \s+ (?P<type> [^\s=]+ )? ( \s+ = .* )? $
re_enum_item ==
  <<"cat", << <<"star", AnySpace>>,
              <<"grp", "enum", <<"plus", NotSpace>> >>,
              <<"plus", AnySpace>>,
              <<"opt", <<"grp", "type",
                         <<"plus", <<"nset", Space \cup {"="}>> >> >> >>,
              <<"opt", <<"grp", "g3",
                         <<"cat", << <<"plus", AnySpace>>,
                                     <<"lit", "=">>,
                                     <<"star", <<"any">> >> >> >> >> >>,
              <<"eol">> >> >>

\* line 167:  \s* \) \s* $
re_enum_close ==
  <<"cat", << <<"star", AnySpace>>,
              <<"lit", ")">>,
              <<"star", AnySpace>>,
              <<"eol">> >> >>

\* line 168:  ^ \s* \* (?P<classname> [\w.]+ ) $
re_ptr ==
  <<"cat", << <<"bol">>,
              <<"star", AnySpace>>,
              <<"lit", "*">>,
              <<"grp", "classname", <<"plus", <<"set", WordCh \cup {"."}>> >> >>,
              <<"eol">> >> >>

\* line 63:  map\[ (?P<keyType> [^\]]+ ) \] (?P<valueType> [^\s]+ )
re_map ==
  <<"cat", << Chars(<<"m","a","p","[">>),
              <<"grp", "keyType", <<"plus", <<"nset", {"]"}>> >> >>,
              <<"lit", "]">>,
              <<"grp", "valueType", <<"plus", NotSpace>> >> >> >>

\* line 81:  (.) ([A-Z][a-z]+)
re_dash1 ==
  <<"cat", << <<"grp", "g1", <<"any">> >>,
              <<"grp", "g2", <<"cat", << <<"set", Upper>>,
                                         <<"plus", <<"set", Lower>> >> >> >> >> >> >>

\* line 82:  ([a-z0-9]) ([A-Z])
re_dash2 ==
  <<"cat", << <<"grp", "g1", <<"set", Lower \cup Digit>> >>,
              <<"grp", "g2", <<"set", Upper>> >> >> >>

(***************************************************************************)
(* TypeScriptClassWriter: the pure helpers.                                *)
(***************************************************************************)
\* the % formatting of gotots.py only splices strings into literals
S_number == <<"n","u","m","b","e","r">>

S_boolean == <<"b","o","o","l","e","a","n">>

S_Object == <<"O","b","j","e","c","t">>

S_int == <<"i","n","t">>

S_float == <<"f","l","o","a","t">>

S_bool == <<"b","o","o","l">>

S_mapOpen == <<"m","a","p","[">>

S_slice == <<"[","]">>

\* MapType with the key and the value exchanged
MapType_swapped(keyType, valueType) ==
  <<"{","[","k","e","y",":"," ">> \o valueType \o <<"]",":"," ">>
    \o keyType \o <<"}">>

\* '{[key: %s]: %s}' % (keyType, valueType)
MapType(keyType, valueType) ==
  <<"{","[","k","e","y",":"," ">> \o keyType \o <<"]",":"," ">>
    \o valueType \o <<"}">>

\* _go_type_to_ts_type with the numeric rule tried last, not first
_go_type_to_ts_type_numericLast(gotype) ==
  IF gotype = S_bool THEN S_boolean
  ELSE IF StartsWith(gotype, S_mapOpen) THEN
    LET m == ReMatch(re_map, gotype)
    IN  IF m.ok
        THEN MapType(Group(m, gotype, "keyType"), Group(m, gotype, "valueType"))
        ELSE S_Object
  ELSE IF StartsWith(gotype, S_slice) THEN
    LET remainder == SubSeq(gotype, 3, Len(gotype)) \o S_slice
    IN  IF StartsWith(remainder, <<"*">>) THEN Tail(remainder) ELSE remainder
  ELSE IF StartsWith(gotype, <<"*">>) THEN Tail(gotype)
  ELSE IF Contains(gotype, S_int) \/ Contains(gotype, S_float) THEN S_number
  ELSE gotype

\* _go_type_to_ts_type with the pointer marker of a slice element kept
_go_type_to_ts_type_slicePtrKept(gotype) ==
  IF Contains(gotype, S_int) \/ Contains(gotype, S_float) THEN S_number
  ELSE IF gotype = S_bool THEN S_boolean
  ELSE IF StartsWith(gotype, S_mapOpen) THEN
    LET m == ReMatch(re_map, gotype)
    IN  IF m.ok
        THEN MapType(Group(m, gotype, "keyType"), Group(m, gotype, "valueType"))
        ELSE S_Object
  ELSE IF StartsWith(gotype, S_slice) THEN
    SubSeq(gotype, 3, Len(gotype)) \o S_slice
  ELSE IF StartsWith(gotype, <<"*">>) THEN Tail(gotype)
  ELSE gotype

\* _go_type_to_ts_type without the pointer rule of lines 74-75
_go_type_to_ts_type_noPtrRule(gotype) ==
  IF Contains(gotype, S_int) \/ Contains(gotype, S_float) THEN S_number
  ELSE IF gotype = S_bool THEN S_boolean
  ELSE IF StartsWith(gotype, S_mapOpen) THEN
    LET m == ReMatch(re_map, gotype)
    IN  IF m.ok
        THEN MapType(Group(m, gotype, "keyType"), Group(m, gotype, "valueType"))
        ELSE S_Object
  ELSE IF StartsWith(gotype, S_slice) THEN
    LET remainder == SubSeq(gotype, 3, Len(gotype)) \o S_slice
    IN  IF StartsWith(remainder, <<"*">>) THEN Tail(remainder) ELSE remainder
  ELSE gotype

_go_type_to_ts_type(gotype) ==
  IF Contains(gotype, S_int) \/ Contains(gotype, S_float) THEN S_number
  ELSE IF gotype = S_bool THEN S_boolean
  ELSE IF StartsWith(gotype, S_mapOpen) THEN
    LET m == ReMatch(re_map, gotype)
    IN  IF m.ok
        THEN MapType(Group(m, gotype, "keyType"), Group(m, gotype, "valueType"))
        ELSE S_Object
  ELSE IF StartsWith(gotype, S_slice) THEN
    LET remainder == SubSeq(gotype, 3, Len(gotype)) \o S_slice
    IN  IF StartsWith(remainder, <<"*">>) THEN Tail(remainder) ELSE remainder
  ELSE IF StartsWith(gotype, <<"*">>) THEN Tail(gotype)
  ELSE gotype

RECURSIVE ReSubDash(_, _, _)
\* re.sub(r, r'\1-\2', s), from position pos on: each match, left to right
\* and never overlapping, is replaced by its group 1, a hyphen and its
\* group 2 (neither pattern of _to_dash_name matches the empty string)
ReSubDash(r, s, pos) ==
  LET m == ReSearchFrom(r, s, pos)
  IN  IF ~m.ok THEN SubSeq(s, pos, Len(s))
      ELSE Slice(s, pos, m.start)
             \o Group(m, s, "g1") \o <<"-">> \o Group(m, s, "g2")
             \o ReSubDash(r, s, m.end)

\* _to_dash_name without the lower() of line 82
_to_dash_name_notLowered(filename) ==
  LET s1 == ReSubDash(re_dash1, filename, 1)
  IN  ReSubDash(re_dash2, s1, 1)

_to_dash_name(filename) ==
  LET s1 == ReSubDash(re_dash1, filename, 1)
  IN  StrLower(ReSubDash(re_dash2, s1, 1))

(***************************************************************************)
(* Python values.  None is written as a sequence no string equals; a dict  *)
(* is a record whose domain is the set of its keys.                        *)
(***************************************************************************)
PyFalse == <<"False">>

PyTrue == <<"True">>

\* the truth value Python gives v in a condition
Truthy(v) == v \notin {None, PyFalse, <<>>}

\* d.get(key, '')
Get(d, key) == IF key \in DOMAIN d THEN d[key] ELSE <<>>

\* the digits of n >= 0: '%d' % n
RECURSIVE IntToStr(_)
IntToStr(n) ==
  LET d == <<"0","1","2","3","4","5","6","7","8","9">>[(n % 10) + 1]
  IN  IF n < 10 THEN <<d>> ELSE IntToStr(n \div 10) \o <<d>>

\* os.path.join(a, b) on POSIX
PathJoin(a, b) ==
  IF StartsWith(b, <<"/">>) THEN b
  ELSE IF a = <<>> \/ a[Len(a)] = "/" THEN a \o b
  ELSE a \o <<"/">> \o b

(***************************************************************************)
(* String literals of the writers.                                         *)
(***************************************************************************)
S_ts ==
  <<".","t","s">>

S_exportClass ==
  <<"e","x","p","o","r","t"," ","c","l","a","s","s"," ">>

S_exportEnum ==
  <<"e","x","p","o","r","t"," ","e","n","u","m"," ">>

S_openBrace ==
  <<" ","{","\n">>

S_closeBrace ==
  <<"}","\n">>

S_public ==
  <<" "," ","p","u","b","l","i","c"," ">>

S_optional ==
  <<"o","p","t","i","o","n","a","l">>

S_commentLead ==
  <<" ","/","/"," ">>

S_import ==
  <<"i","m","p","o","r","t"," ","{"," ","J","s","o","n","M","e",
    "m","b","e","r",","," ","J","s","o","n","O","b","j","e","c",
    "t"," ","}"," ","f","r","o","m"," ","'","t","y","p","e","d",
    "j","s","o","n","'",";">>

S_JsonObject ==
  <<"@","J","s","o","n","O","b","j","e","c","t">>

S_JsonMemberOpen ==
  <<" "," ","@","J","s","o","n","M","e","m","b","e","r","(","{",
    "n","a","m","e",":"," ","'">>

S_JsonMemberClose ==
  <<"'","}",")">>

S_FIXME ==
  <<"F","I","X","M","E",":"," ","R","e","p","l","a","c","e"," ",
    "t","h","i","s"," ","f","i","e","l","d"," ","w","i","t","h",
    " ","c","o","n","t","e","n","t","s"," ","o","f"," ","c","l",
    "a","s","s">>

S_class ==
  <<"c","l","a","s","s">>

S_anon ==
  <<"a","n","o","n","-">>

S_noClasses ==
  <<"n","o"," ","c","l","a","s","s","e","s"," ","f","o","u","n",
    "d"," ","i","n",":"," ">>

NL == <<"\n">>

(***************************************************************************)
(* TypeScriptClassWriter: the writers.  A writer yields what it did to the *)
(* file system: whether it opened (created or truncated) the file at path, *)
(* the text it wrote before it returned or raised, and the exception.      *)
(***************************************************************************)
NoExc == "none"

\* lines 141-143: the trailing comment of a member of write_class
PlainComment(f) ==
  LET optional == IF Truthy(f.optional) THEN S_optional ELSE <<>>
      comments == Strip(Join(<<" ">>, <<optional, Get(f, "comment")>>))
  IN  IF comments = <<>> THEN comments ELSE S_commentLead \o comments

\* lines 140-145: one iteration of the loop of write_class
PlainMember(f) ==
  S_public \o f.json \o <<":"," ">> \o _go_type_to_ts_type(f.type)
    \o <<";">> \o PlainComment(f) \o NL

RECURSIVE PlainFields(_)
\* lines 139-145: the loop, which a missing key ends with a KeyError
PlainFields(fields) ==
  IF fields = <<>> THEN [text |-> <<>>, exc |-> NoExc]
  ELSE IF ~({"type", "optional", "json"} \subseteq DOMAIN fields[1])
  THEN [text |-> <<>>, exc |-> "KeyError"]
  ELSE LET rest == PlainFields(Tail(fields))
       IN  [text |-> PlainMember(fields[1]) \o rest.text, exc |-> rest.exc]

write_class(dir, cinfo) ==
  LET path == PathJoin(dir, _to_dash_name(cinfo.classname) \o S_ts)
      body == PlainFields(cinfo.fields)
  IN  [opened  |-> TRUE,
       path    |-> path,
       content |-> S_exportClass \o cinfo.classname \o S_openBrace \o body.text
                     \o (IF body.exc = NoExc THEN S_closeBrace ELSE <<>>),
       exc     |-> body.exc]

\* lines 107-109: the trailing comment of a member of write_class_typed_json
TypedComment(f) ==
  LET optional == IF Truthy(f.optional) THEN S_optional ELSE <<>>
      comments == Join(<<" ">>, <<optional, Get(f, "comment")>>)
  IN  IF comments = <<>> THEN comments ELSE S_commentLead \o comments

\* lines 104-116: one iteration of the loop of write_class_typed_json
TypedMember(f) ==
  LET name == <<LowerOf(f.name[1])>> \o Tail(f.name)
  IN  Join(NL, << S_JsonMemberOpen \o f.json \o S_JsonMemberClose,
                  S_public \o name \o <<":"," ">> \o _go_type_to_ts_type(f.type)
                    \o <<";">> \o TypedComment(f),
                  NL >>)

RECURSIVE TypedFields(_)
\* lines 103-116: the loop, which a missing key ends with a KeyError
TypedFields(fields) ==
  IF fields = <<>> THEN [text |-> <<>>, exc |-> NoExc]
  ELSE IF ~({"name", "type", "optional", "json"} \subseteq DOMAIN fields[1])
  THEN [text |-> <<>>, exc |-> "KeyError"]
  ELSE LET rest == TypedFields(Tail(fields))
       IN  [text |-> TypedMember(fields[1]) \o rest.text, exc |-> rest.exc]

write_class_typed_json(dir, cinfo) ==
  LET path == PathJoin(dir, _to_dash_name(cinfo.classname) \o S_ts)
      head == Join(NL, << S_import, NL, S_JsonObject,
                          S_exportClass \o cinfo.classname \o <<" ","{">>, NL >>)
      body == TypedFields(cinfo.fields)
  IN  [opened  |-> TRUE,
       path    |-> path,
       content |-> head \o body.text
                     \o (IF body.exc = NoExc THEN S_closeBrace ELSE <<>>),
       exc     |-> body.exc]

RECURSIVE EnumMembers_reversed(_)
\* EnumMembers writing the members last to first
EnumMembers_reversed(members) ==
  IF members = <<>> THEN <<>>
  ELSE EnumMembers_reversed(Tail(members))
         \o <<" "," ">> \o members[1] \o <<",","\n">>

RECURSIVE EnumMembers(_)
\* lines 155-156
EnumMembers(members) ==
  IF members = <<>> THEN <<>>
  ELSE <<" "," ">> \o members[1] \o <<",","\n">> \o EnumMembers(Tail(members))

\* enum['type'] is read at line 152, before the file is opened
write_enum(dir, einfo) ==
  IF "type" \notin DOMAIN einfo
  THEN [opened |-> FALSE, path |-> <<>>, content |-> <<>>, exc |-> "KeyError"]
  ELSE [opened  |-> TRUE,
        path    |-> PathJoin(dir, _to_dash_name(einfo.type) \o S_ts),
        content |-> S_exportEnum \o einfo.type \o S_openBrace
                      \o EnumMembers(einfo.enum) \o S_closeBrace,
        exc     |-> NoExc]

(***************************************************************************)
(* The input lines the model reads, each as the file iterator yields it    *)
(* (with its newline).                                                     *)
(***************************************************************************)
\* a struct-open line
L_structA ==
  <<"t","y","p","e"," ","A"," ","s","t","r","u","c","t"," ","{","\n">>

\* a second struct-open line
L_structB ==
  <<"t","y","p","e"," ","U","s","e","r","I","d"," ","s","t","r","u",
    "c","t"," ","{","\n">>

\* a tagged field
L_field ==
  <<" "," ","N","m"," ","s","t","r","i","n","g"," ",BQ,"j","s","o",
    "n",":","\"","n","m","\"",BQ,"\n">>

\* a tagged field with omitempty
L_fieldOpt ==
  <<" "," ","A","g"," ","*","T"," ",BQ,"j","s","o","n",":","\"","a",
    "g",",","o","m","i","t","e","m","p","t","y","\"",BQ,"\n">>

\* the tagged field of end-to-end scenario 3
L_fieldMap ==
  <<" "," ","M"," ","m","a","p","[","s","t","r","i","n","g","]","i",
    "n","t"," ",BQ,"j","s","o","n",":","\"","c","o","u","n","t","s",
    "\"",BQ,"\n">>

\* an embedded pointer
L_ptr ==
  <<" "," ","*","B","a","s","e","\n">>

\* enum-open
L_constOpen ==
  <<"c","o","n","s","t"," ","(","\n">>

\* enum-close
L_close ==
  <<")","\n">>

\* an enum item with a type token and a value
L_item ==
  <<" "," ","X"," ","S","t"," ","="," ","1","\n">>

\* an enum item with no type token
L_itemBare ==
  <<" "," ","Y","\n">>

\* an enum item with another type token
L_itemOther ==
  <<" "," ","Z"," ","K","d","\n">>

\* a line no recognizer matches outside enum mode
L_brace ==
  <<"}","\n">>

\* a struct-open line whose name hyphenates as that of L_structB does
L_structC ==
  <<"t","y","p","e"," ","u","s","e","r","I","d"," ","s","t","r","u","c","t"," ","{","\n">>

\* an enum item of a type whose name is that of L_structB
L_itemU ==
  <<" "," ","X"," ","U","s","e","r","I","d"," ","="," ","1","\n">>

Lines ==
  {L_structA, L_structB, L_field, L_fieldOpt,
   L_fieldMap, L_ptr, L_constOpen, L_close,
   L_item, L_itemBare, L_itemOther, L_brace}

(***************************************************************************)
(* GoFileParser.parse: one iteration of the loop over the lines.           *)
(***************************************************************************)
\* {}
EmptyDict == [x \in {} |-> x]

\* lines 189-192
NewClass(classname) == [classname |-> classname, fields |-> <<>>]

\* lines 198-203
PtrField(classname) ==
  [classptr |-> S_class,
   optional |-> <<>>,
   json     |-> <<"*">>,
   comment  |-> S_FIXME,
   type     |-> classname]

\* lines 210-214
TaggedField(m, line) ==
  [name     |-> Group(m, line, "field"),
   type     |-> Group(m, line, "type"),
   json     |-> Group(m, line, "json"),
   optional |-> Group(m, line, "optional")]

\* the bounds of random.randint at line 239
RandLo == 1000

RandHi == 9999

\* 'anon-%d' % n
AnonName(n) == S_anon \o IntToStr(n)

\* AppendField appending to the first class, not to the one info is bound to
AppendField_toFirst(loc, field) ==
  IF loc.info = 0 THEN [loc EXCEPT !.exc = "KeyError"]
  ELSE [loc EXCEPT !.classlist[1].fields = Append(@, field)]

\* info['fields'].append(field): info is the index in classlist of the dict
\* it is bound to, 0 for the dict of line 180, which has no 'fields' key
AppendField(loc, field) ==
  IF loc.info = 0 THEN [loc EXCEPT !.exc = "KeyError"]
  ELSE [loc EXCEPT !.classlist[loc.info].fields = Append(@, field)]

\* StartClass losing the classes started before
StartClass_replacing(loc, classname) ==
  [loc EXCEPT !.classlist = <<NewClass(classname)>>, !.info = 1]

\* lines 187-193: a struct-open line starts a class and binds info to it
StartClass(loc, classname) ==
  [loc EXCEPT !.classlist = Append(@, NewClass(classname)),
              !.info = Len(loc.classlist) + 1]

\* OpenEnum keeping the enum it interrupts
OpenEnum_flushing(loc) ==
  IF Truthy(loc.in_enum)
  THEN [loc EXCEPT !.in_enum = PyTrue, !.enum = [enum |-> <<>>],
                   !.enumlist = Append(@, loc.enum)]
  ELSE [loc EXCEPT !.in_enum = PyTrue, !.enum = [enum |-> <<>>]]

\* lines 221-223
OpenEnum(loc) == [loc EXCEPT !.in_enum = PyTrue, !.enum = [enum |-> <<>>]]

\* lines 231-233
CloseEnum(loc) ==
  [loc EXCEPT !.in_enum = PyFalse,
              !.enumlist = Append(@, loc.enum),
              !.enum = EmptyDict]

\* EnumItem taking the type of every item line that has a type token
EnumItem_retyping(loc, m, line, n) ==
  LET type  == Group(m, line, "type")
      fresh == IF Truthy(type) THEN type ELSE AnonName(n)
      named == IF "type" \in DOMAIN loc.enum
               THEN (IF Truthy(type) THEN [loc.enum EXCEPT !.type = type]
                     ELSE loc.enum)
               ELSE loc.enum @@ ("type" :> fresh)
      added == [named EXCEPT !.enum = Append(@, Group(m, line, "enum"))]
  IN  [loc EXCEPT !.enum = added, !.in_enum = added.type]

\* lines 238-243
EnumItem(loc, m, line, n) ==
  LET type  == Group(m, line, "type")
      named == IF "type" \in DOMAIN loc.enum THEN loc.enum
               ELSE loc.enum @@
                    ("type" :> (IF Truthy(type) THEN type ELSE AnonName(n)))
      added == [named EXCEPT !.enum = Append(@, Group(m, line, "enum"))]
  IN  [loc EXCEPT !.enum = added, !.in_enum = added.type]

\* lines 185, 196, 208, 219, 228 and 236: the six searches on one line
Searches(line) ==
  [class      |-> ReSearch(re_class, line),
   ptr        |-> ReSearch(re_ptr, line),
   field      |-> ReSearch(re_field, line),
   enum_open  |-> ReSearch(re_enum_open, line),
   enum_close |-> ReSearch(re_enum_close, line),
   enum_item  |-> ReSearch(re_enum_item, line)]

\* the searches on each line of Lines
M_structA == Searches(L_structA)

M_structB == Searches(L_structB)

M_field == Searches(L_field)

M_fieldOpt == Searches(L_fieldOpt)

M_fieldMap == Searches(L_fieldMap)

M_ptr == Searches(L_ptr)

M_constOpen == Searches(L_constOpen)

M_close == Searches(L_close)

M_item == Searches(L_item)

M_itemBare == Searches(L_itemBare)

M_itemOther == Searches(L_itemOther)

M_brace == Searches(L_brace)

M_structC == Searches(L_structC)

M_itemU == Searches(L_itemU)

\* Searches(line), looked up for the lines of the model
SearchesOf(line) ==
    CASE line = L_structA -> M_structA
      [] line = L_structB -> M_structB
      [] line = L_field -> M_field
      [] line = L_fieldOpt -> M_fieldOpt
      [] line = L_fieldMap -> M_fieldMap
      [] line = L_ptr -> M_ptr
      [] line = L_constOpen -> M_constOpen
      [] line = L_close -> M_close
      [] line = L_item -> M_item
      [] line = L_itemBare -> M_itemBare
      [] line = L_itemOther -> M_itemOther
      [] line = L_brace -> M_brace
      [] line = L_structC -> M_structC
      [] line = L_itemU -> M_itemU
      [] OTHER -> Searches(line)

\* parse_line trying re_enum_item before re_enum_close
parse_line_itemFirst(loc, m, line, n) ==
  IF m.class.ok THEN StartClass(loc, Group(m.class, line, "class"))
  ELSE IF m.ptr.ok THEN
    AppendField(loc, PtrField(Group(m.ptr, line, "classname")))
  ELSE IF m.field.ok THEN
    AppendField(loc, TaggedField(m.field, line))
  ELSE IF m.enum_open.ok THEN OpenEnum(loc)
  ELSE IF Truthy(loc.in_enum) THEN
    IF m.enum_item.ok THEN EnumItem(loc, m.enum_item, line, n)
    ELSE IF m.enum_close.ok THEN CloseEnum(loc)
    ELSE loc
  ELSE loc

\* lines 185-245: the body of the loop for one line; m holds the matches
\* of its searches on the line and n is the number random.randint returns
\* if it is called.  loc holds the locals of parse and exc, the exception
\* the iteration raised
parse_line(loc, m, line, n) ==
  IF m.class.ok THEN StartClass(loc, Group(m.class, line, "class"))
  ELSE IF m.ptr.ok THEN
    AppendField(loc, PtrField(Group(m.ptr, line, "classname")))
  ELSE IF m.field.ok THEN
    AppendField(loc, TaggedField(m.field, line))
  ELSE IF m.enum_open.ok THEN OpenEnum(loc)
  ELSE IF Truthy(loc.in_enum) THEN
    IF m.enum_close.ok THEN CloseEnum(loc)
    ELSE IF m.enum_item.ok THEN EnumItem(loc, m.enum_item, line, n)
    ELSE loc
  ELSE loc

\* whether the iteration for line calls random.randint (line 239)
CallsRandint(loc, m, line) ==
  /\ ~m.class.ok /\ ~m.ptr.ok /\ ~m.field.ok /\ ~m.enum_open.ok
  /\ Truthy(loc.in_enum)
  /\ ~m.enum_close.ok
  /\ m.enum_item.ok
  /\ "type" \notin DOMAIN loc.enum
  /\ ~Truthy(Group(m.enum_item, line, "type"))

(***************************************************************************)
(* The run of _main.                                                       *)
(***************************************************************************)
VARIABLES
  pc,         \* where _main is: "main" (line 258), "parse" (the loop of
              \* parse), "returned" (lines 260-267), "done", "raised"
  argc,       \* len(args.input)
  k,          \* the number of inputs taken from args.input
  lines,      \* the lines of the current input read so far
  classlist, enumlist, info, enum, in_enum,   \* the locals of parse
  written,    \* the descriptors of the current input handed to a writer
  fs,         \* the output files: a set of [path, content]
  out,        \* the lines printed
  call,       \* the function of gotots.py called last, "" before any
  exc,        \* the exception that call raised, NoExc if none
  ty_in,      \* the argument of a call of a helper of the writer alone
  ty_out      \* what that call returned, None before it

vars == <<pc, argc, k, lines, classlist, enumlist, info, enum, in_enum,
          written, fs, out, call, exc, ty_in, ty_out>>

\* the most lines the model reads from one input
MaxLines == 3

\* args.outdir
outdir == <<"o","u","t">>

\* args.input[k - 1]
InputName(i) == <<"i","n">> \o IntToStr(i)

\* the numbers the model lets random.randint return
RandInts == {RandLo, RandHi}

Locals ==
  [classlist |-> classlist, enumlist |-> enumlist, info |-> info,
   enum |-> enum, in_enum |-> in_enum, exc |-> exc]

Init ==
  /\ pc = "main"
  /\ argc = 1
  /\ k = 0
  /\ lines = <<>>
  /\ classlist = <<>>
  /\ enumlist = <<>>
  /\ info = 0
  /\ enum = EmptyDict
  /\ in_enum = PyFalse
  /\ written = 0
  /\ fs = {}
  /\ out = <<>>
  /\ call = ""
  /\ exc = NoExc
  /\ ty_in = <<>>
  /\ ty_out = None

\* lines 258-259 and 177-182: the next input is opened
ParseOpen ==
  /\ pc = "main"
  /\ k < argc
  /\ k' = k + 1
  /\ pc' = "parse"
  /\ lines' = <<>>
  /\ classlist' = <<>>
  /\ enumlist' = <<>>
  /\ info' = 0
  /\ enum' = EmptyDict
  /\ in_enum' = PyFalse
  /\ written' = 0
  /\ call' = "parse"
  /\ UNCHANGED <<argc, fs, out, exc, ty_in, ty_out>>

\* ParseOpenFails with the error swallowed: the run goes on to the next input
ParseOpenFails_skipping ==
  /\ pc = "main"
  /\ k < argc
  /\ k' = k + 1
  /\ pc' = "main"
  /\ call' = "parse"
  /\ exc' = "IOError"
  /\ UNCHANGED <<argc, lines, classlist, enumlist, info, enum, in_enum,
                 written, fs, out, ty_in, ty_out>>

\* line 177: open raises IOError, which nothing catches
ParseOpenFails ==
  /\ pc = "main"
  /\ k < argc
  /\ k' = k + 1
  /\ pc' = "raised"
  /\ call' = "parse"
  /\ exc' = "IOError"
  /\ UNCHANGED <<argc, lines, classlist, enumlist, info, enum, in_enum,
                 written, fs, out, ty_in, ty_out>>

\* lines 184-245: the loop reads one more line
ParseLine(LineSet, maxLines) ==
  /\ pc = "parse"
  /\ Len(lines) < maxLines
  /\ \E line \in LineSet :
       \E m \in {SearchesOf(line)} :
       \E n \in (IF CallsRandint(Locals, m, line) THEN RandInts ELSE {RandLo}) :
       \E loc \in {parse_line(Locals, m, line, n)} :
             /\ lines' = Append(lines, line)
             /\ classlist' = loc.classlist
             /\ enumlist' = loc.enumlist
             /\ info' = loc.info
             /\ enum' = loc.enum
             /\ in_enum' = loc.in_enum
             /\ exc' = loc.exc
             /\ pc' = IF loc.exc = NoExc THEN "parse" ELSE "raised"
  /\ UNCHANGED <<argc, k, written, fs, out, call, ty_in, ty_out>>

\* line 247: the input is exhausted
ParseReturn ==
  /\ pc = "parse"
  /\ pc' = "returned"
  /\ UNCHANGED <<argc, k, lines, classlist, enumlist, info, enum, in_enum,
                 written, fs, out, call, exc, ty_in, ty_out>>

\* lines 260-261
NoClassesFound ==
  /\ pc = "returned"
  /\ classlist = <<>> /\ enumlist = <<>>
  /\ out' = Append(out, S_noClasses \o InputName(k))
  /\ pc' = "main"
  /\ UNCHANGED <<argc, k, lines, classlist, enumlist, info, enum, in_enum,
                 written, fs, call, exc, ty_in, ty_out>>

\* Store keeping the file that is at the path already
Store_keepFirst(files, w) ==
  IF w.opened /\ ~(\E f \in files : f.path = w.path)
  THEN files \cup {[path |-> w.path, content |-> w.content]}
  ELSE files

\* what a writer that returned w leaves in the file system
Store(files, w) ==
  IF w.opened
  THEN {f \in files : f.path # w.path}
         \cup {[path |-> w.path, content |-> w.content]}
  ELSE files

\* a call of the writer named writer, which did w
Emit(writer, w) ==
  /\ fs' = Store(fs, w)
  /\ written' = written + 1
  /\ call' = writer
  /\ exc' = w.exc
  /\ pc' = IF w.exc = NoExc THEN "returned" ELSE "raised"
  /\ UNCHANGED <<argc, k, lines, classlist, enumlist, info, enum, in_enum,
                 out, ty_in, ty_out>>

\* lines 263-264
WriteClass ==
  /\ pc = "returned"
  /\ ~(classlist = <<>> /\ enumlist = <<>>)
  /\ written < Len(classlist)
  /\ \E w \in {write_class(outdir, classlist[written + 1])} :
       Emit("write_class", w)

\* write_class_typed_json has no caller in gotots.py: a caller that uses it
\* where _main uses write_class
WriteClassTypedJson ==
  /\ pc = "returned"
  /\ ~(classlist = <<>> /\ enumlist = <<>>)
  /\ written < Len(classlist)
  /\ \E w \in {write_class_typed_json(outdir, classlist[written + 1])} :
       Emit("write_class_typed_json", w)

\* lines 266-267
WriteEnum ==
  /\ pc = "returned"
  /\ ~(classlist = <<>> /\ enumlist = <<>>)
  /\ written >= Len(classlist)
  /\ written < Len(classlist) + Len(enumlist)
  /\ \E w \in {write_enum(outdir, enumlist[written - Len(classlist) + 1])} :
       Emit("write_enum", w)

\* line 258: the descriptors of this input are written, on to the next
NextInput ==
  /\ pc = "returned"
  /\ ~(classlist = <<>> /\ enumlist = <<>>)
  /\ written = Len(classlist) + Len(enumlist)
  /\ pc' = "main"
  /\ UNCHANGED <<argc, k, lines, classlist, enumlist, info, enum, in_enum,
                 written, fs, out, call, exc, ty_in, ty_out>>

\* line 258: args.input is exhausted
Exit ==
  /\ pc = "main"
  /\ k = argc
  /\ pc' = "done"
  /\ UNCHANGED <<argc, k, lines, classlist, enumlist, info, enum, in_enum,
                 written, fs, out, call, exc, ty_in, ty_out>>

ReadLine == ParseLine(Lines, MaxLines)

Next ==
  \/ ParseOpen
  \/ ParseOpenFails
  \/ ReadLine
  \/ ParseReturn
  \/ NoClassesFound
  \/ WriteClass
  \/ WriteClassTypedJson
  \/ WriteEnum
  \/ NextInput
  \/ Exit

Spec == Init /\ [][Next]_vars

(***************************************************************************)
(* A call of _go_type_to_ts_type alone, on every type name made of at     *)
(* most MaxTokens of the pieces TypeTokens.  A type name reaches the       *)
(* writers from group type of re_field or group classname of re_ptr,       *)
(* neither of which holds whitespace.                                      *)
(***************************************************************************)
MaxTokens == 4

TypeTokens ==
  {<<"m","a","p","[">>,
   <<"]">>,
   <<"[","]">>,
   <<"*">>,
   <<"i","n","t">>,
   <<"f","l","o","a","t">>,
   <<"b","o","o","l">>,
   <<"T">>,
   <<"i","n">>,
   <<"t">>}

RECURSIVE TypeNamesOf(_)
TypeNamesOf(n) ==
  IF n = 0 THEN {<<>>}
  ELSE LET shorter == TypeNamesOf(n - 1)
       IN  shorter \cup {s \o tk : s \in shorter, tk \in TypeTokens}

TypeNames == TypeNamesOf(MaxTokens)

TypeInit ==
  /\ pc = "type"
  /\ argc = 0
  /\ k = 0
  /\ lines = <<>>
  /\ classlist = <<>>
  /\ enumlist = <<>>
  /\ info = 0
  /\ enum = EmptyDict
  /\ in_enum = PyFalse
  /\ written = 0
  /\ fs = {}
  /\ out = <<>>
  /\ call = ""
  /\ exc = NoExc
  /\ ty_in \in TypeNames
  /\ ty_out = None

Translate ==
  /\ pc = "type"
  /\ ty_out' = _go_type_to_ts_type(ty_in)
  /\ call' = "_go_type_to_ts_type"
  /\ pc' = "typed"
  /\ UNCHANGED <<argc, k, lines, classlist, enumlist, info, enum, in_enum,
                 written, fs, out, exc, ty_in>>

TypeNext == Translate

SpecType == TypeInit /\ [][TypeNext]_vars

(***************************************************************************)
(* Claims about _go_type_to_ts_type, under SpecType.                       *)
(***************************************************************************)
\* the type name holds int or float somewhere
HasNumeric(g) == Contains(g, S_int) \/ Contains(g, S_float)

\* the translation of ty_in, should it be map[K]V with K not empty and
\* without a closing bracket and V not empty, or a map with no closing
\* bracket at all, is what C4 says
MapTranslated ==
  /\ \A j \in 6..(Len(ty_in) - 1) :
       (ty_in[j] = "]" /\ \A i \in 5..(j - 1) : ty_in[i] # "]")
         => ty_out = <<"{","[","k","e","y",":"," ">>
                       \o SubSeq(ty_in, 5, j - 1) \o <<"]",":"," ">>
                       \o SubSeq(ty_in, j + 1, Len(ty_in)) \o <<"}">>
  /\ (\A i \in 1..Len(ty_in) : ty_in[i] # "]") => ty_out = S_Object

SliceTranslated ==
  LET elem == SubSeq(ty_in, 3, Len(ty_in))
  IN  ty_out = (IF StartsWith(elem, <<"*">>) THEN Tail(elem) ELSE elem)
                 \o S_slice

\* C5 as stated: every []T is translated to T[], and every []*T to T[]
C5_SliceTypes ==
  (pc = "typed" /\ StartsWith(ty_in, S_slice)) => SliceTranslated

\* C5 amended: the same, for the type names that hold neither int nor float
C5_SliceTypesNotNumeric ==
  (pc = "typed" /\ StartsWith(ty_in, S_slice) /\ ~HasNumeric(ty_in))
    => SliceTranslated

C5_Witness ==
  /\ pc = "typed"
  /\ ty_in = <<"[","]","*","T">>
  /\ ty_out = <<"T","[","]">>

\* ty_in is *T with T not itself a pointer
PointerToValue ==
  /\ StartsWith(ty_in, <<"*">>)
  /\ ~(Len(ty_in) >= 2 /\ ty_in[2] = "*")

\* C6 as stated: every *T, T not a pointer, is translated to T
C6_PointerTypes ==
  (pc = "typed" /\ PointerToValue) => ty_out = Tail(ty_in)

\* C6 amended: the same, for the type names that hold neither int nor float
C6_PointerTypesNotNumeric ==
  (pc = "typed" /\ PointerToValue /\ ~HasNumeric(ty_in))
    => ty_out = Tail(ty_in)

C6_Witness ==
  /\ pc = "typed"
  /\ ty_in = <<"*","T">>
  /\ ty_out = <<"T">>

\* C7: every type name that holds int or float anywhere, inside a map, a
\* slice or a pointer shape too, is translated to number
C7_NumericFirst ==
  (pc = "typed" /\ HasNumeric(ty_in)) => ty_out = S_number

C7_Witness ==
  /\ pc = "typed"
  /\ ty_in = <<"m","a","p","[","T","]","i","n","t">>
  /\ ty_out = S_number

(***************************************************************************)
(* Claims about parse and the writers, under Spec.                         *)
(***************************************************************************)
ClassWriters == {"write_class", "write_class_typed_json"}

\* the path of the file of class descriptor c
ClassPath(c) == PathJoin(outdir, _to_dash_name(c.classname) \o S_ts)

\* a class writer has just returned: the descriptor it wrote
ClassWritten ==
  pc = "returned" /\ call \in ClassWriters /\ written \in 1..Len(classlist)

\* the text of the file at path p, None if there is none
ContentAt(p) ==
  IF \E f \in fs : f.path = p
  THEN (CHOOSE f \in fs : f.path = p).content
  ELSE None

\* C1: parse returns for every sequence of lines; it never fails because
\* of the syntax of its input, a field line before any struct-open line
\* included
C1_ParseNeverFailsOnSyntax == ~(call = "parse" /\ exc = "KeyError")

\* C2: every EnumDescriptor in enumList has a typeName, also when its
\* block held no item line, and write_enum renders every one of them
C2_EveryEnumHasTypeName ==
  /\ \A i \in 1..Len(enumlist) : "type" \in DOMAIN enumlist[i]
  /\ ~(call = "write_enum" /\ exc # NoExc)

\* field f is that of scenario 3: typed map[string]int, tagged json:"counts"
IsCountsField(f) ==
  /\ "name" \in DOMAIN f
  /\ f.type = <<"m","a","p","[","s","t","r","i","n","g","]","i","n","t">>
  /\ f.json = <<"c","o","u","n","t","s">>

S_countsMember ==
  <<"c","o","u","n","t","s",":"," ","{","[","k","e","y",":"," ","s","t","r","i","n","g","]",":"," ","n","u","m","b","e","r","}",";">>

\* C3: parse followed by write_class emits the field typed map[string]int
\* and tagged json:"counts" as the member counts: {[key: string]: number};
C3_MapFieldEndToEnd ==
  (ClassWritten /\ call = "write_class"
     /\ \E i \in 1..Len(classlist[written].fields) :
          IsCountsField(classlist[written].fields[i]))
    => /\ ContentAt(ClassPath(classlist[written])) # None
       /\ Contains(ContentAt(ClassPath(classlist[written])), S_countsMember)

\* C8: both class writers render every ClassDescriptor of parse without
\* failing, and an embedded-pointer placeholder as a member whose type is
\* the name of the pointee and whose comment is the FIXME text
C8_PlaceholderRendered ==
  /\ ~(call \in ClassWriters /\ exc # NoExc)
  /\ ClassWritten =>
       \A i \in 1..Len(classlist[written].fields) :
         LET f == classlist[written].fields[i]
         IN  "classptr" \in DOMAIN f =>
               Contains(ContentAt(ClassPath(classlist[written])),
                        <<":"," ">> \o f.type \o <<";">> \o S_commentLead
                          \o S_FIXME \o NL)

\* the trailing comment C9 gives field f
ExpectedComment(f) ==
  LET comment == Get(f, "comment")
  IN  IF Truthy(f.optional) /\ comment # <<>>
        THEN S_commentLead \o S_optional \o <<" ">> \o comment
      ELSE IF Truthy(f.optional) THEN S_commentLead \o S_optional
      ELSE IF comment # <<>> THEN S_commentLead \o comment
      ELSE <<>>

\* the member name a class writer gives field f
MemberName(writer, f) ==
  IF writer = "write_class" THEN f.json
  ELSE <<LowerOf(f.name[1])>> \o Tail(f.name)

\* C9: in both modes the member line of a field ends, after its semicolon,
\* with // optional, with its comment, with both, or with nothing when the
\* field is neither optional nor commented
C9_TrailingComments ==
  ClassWritten =>
    \A i \in 1..Len(classlist[written].fields) :
      LET f == classlist[written].fields[i]
      IN  Contains(ContentAt(ClassPath(classlist[written])),
                   S_public \o MemberName(call, f) \o <<":"," ">>
                     \o _go_type_to_ts_type(f.type) \o <<";">>
                     \o ExpectedComment(f) \o NL)

\* the places in lines of the struct-open lines
OpenIdx == {i \in 1..Len(lines) : SearchesOf(lines[i]).class.ok}

\* the place of the n-th struct-open line
NthOpen(n) ==
  CHOOSE i \in OpenIdx : Cardinality({j \in OpenIdx : j <= i}) = n

\* the name on a struct-open line
NameOn(line) == Group(SearchesOf(line).class, line, "class")

\* line appends a field: no struct-open line, an embedded pointer or a
\* tagged field
IsFieldLine(line) ==
  /\ ~SearchesOf(line).class.ok
  /\ SearchesOf(line).ptr.ok \/ SearchesOf(line).field.ok

\* no field line follows the n-th struct-open line before the next one
NoFieldLineAfter(n) ==
  \A i \in (NthOpen(n) + 1)..Len(lines) :
    (\A j \in OpenIdx : ~(NthOpen(n) < j /\ j < i)) => ~IsFieldLine(lines[i])

\* C10: classList holds one ClassDescriptor per struct-open line, in the
\* order of the lines and named after them; that of a struct with no field
\* line has no fields, and write_class renders it as an empty class
C10_OneClassPerStructOpen ==
  pc = "returned" =>
    /\ Len(classlist) = Cardinality(OpenIdx)
    /\ \A n \in 1..Len(classlist) :
         /\ classlist[n].classname = NameOn(lines[NthOpen(n)])
         /\ NoFieldLineAfter(n) => classlist[n].fields = <<>>
    /\ (ClassWritten /\ call = "write_class"
          /\ classlist[written].fields = <<>>)
         => ContentAt(ClassPath(classlist[written]))
              = S_exportClass \o classlist[written].classname
                  \o S_openBrace \o S_closeBrace

\* two structs, the first with no field line, and the first just written
C10_Witness ==
  /\ ClassWritten /\ call = "write_class" /\ written = 1
  /\ Len(classlist) = 2
  /\ classlist[1].fields = <<>>
  /\ classlist[2].fields # <<>>
  /\ ContentAt(ClassPath(classlist[1])) # None

(***************************************************************************)
(* A run of _main on one input that holds const blocks only: the lines of  *)
(* an enum block, read up to MaxEnumLines of them.                         *)
(***************************************************************************)
MaxEnumLines == 5

EnumLines == {L_constOpen, L_close, L_item, L_itemBare, L_itemOther}

ReadEnumLine == ParseLine(EnumLines, MaxEnumLines)

EnumNext ==
  \/ ParseOpen
  \/ ParseOpenFails
  \/ ReadEnumLine
  \/ ParseReturn
  \/ NoClassesFound
  \/ WriteEnum
  \/ NextInput
  \/ Exit

SpecEnum == Init /\ [][EnumNext]_vars

(***************************************************************************)
(* Claims about const blocks, under SpecEnum.                              *)
(***************************************************************************)
\* line is left to the enum recognizers: none of re_class, re_ptr and
\* re_field finds anything on it
NoClassOrField(line) ==
  /\ ~SearchesOf(line).class.ok
  /\ ~SearchesOf(line).ptr.ok
  /\ ~SearchesOf(line).field.ok

\* an enum-open line
IsOpenLine(line) == NoClassOrField(line) /\ SearchesOf(line).enum_open.ok

\* an enum-close line, should it be read in enum mode
IsCloseLine(line) ==
  /\ NoClassOrField(line) /\ ~SearchesOf(line).enum_open.ok
  /\ SearchesOf(line).enum_close.ok

\* an enum-item line, should it be read in enum mode
IsItemLine(line) ==
  /\ NoClassOrField(line) /\ ~SearchesOf(line).enum_open.ok
  /\ ~SearchesOf(line).enum_close.ok
  /\ SearchesOf(line).enum_item.ok

\* the member name and the type token of an enum-item line
MemberOn(line) == Group(SearchesOf(line).enum_item, line, "enum")

TypeOn(line) == Group(SearchesOf(line).enum_item, line, "type")

\* a const block is open when line i is read: an enum-open line came
\* before it with no enum-close line in between
InEnumBefore(i) ==
  \E j \in 1..(i - 1) :
    /\ IsOpenLine(lines[j])
    /\ \A h \in (j + 1)..(i - 1) : ~IsCloseLine(lines[h])

\* the places of the enum-close lines read in enum mode
CloseIdx == {i \in 1..Len(lines) : IsCloseLine(lines[i]) /\ InEnumBefore(i)}

NthClose(n) ==
  CHOOSE i \in CloseIdx : Cardinality({j \in CloseIdx : j <= i}) = n

\* the enum-open line of the block that the close at place c ends
OpenOf(c) ==
  CHOOSE j \in 1..(c - 1) :
    /\ IsOpenLine(lines[j])
    /\ \A h \in (j + 1)..(c - 1) : ~IsOpenLine(lines[h])

\* the member names of the item lines between places o and c, in order
MembersBetween(o, c) ==
  LET idx == SelectSeq([i \in 1..(c - o - 1) |-> o + i],
                       LAMBDA i : IsItemLine(lines[i]))
  IN  [n \in 1..Len(idx) |-> MemberOn(lines[idx[n]])]

\* C20: enumList holds one EnumDescriptor per enum-close line read in enum
\* mode, in the order of these lines, with the members of the block the
\* close ends; a block still open at the end of the input or interrupted
\* by another enum-open line adds none, and an enum-close line outside enum
\* mode changes nothing, the enum-mode flag included
C20_EnumsOnlyByClose ==
  /\ Len(enumlist) = Cardinality(CloseIdx)
  /\ \A n \in 1..Len(enumlist) :
       enumlist[n].enum = MembersBetween(OpenOf(NthClose(n)), NthClose(n))
  /\ pc = "parse" => (Truthy(in_enum) <=> InEnumBefore(Len(lines) + 1))

\* a block with a member interrupted by another, empty, block that is
\* closed: the member is lost
C20_Witness ==
  /\ pc = "returned"
  /\ lines = <<L_constOpen, L_item, L_constOpen, L_close, L_close>>
  /\ enumlist = <<[enum |-> <<>>]>>

\* t is anon-NNNN with NNNN in 1000..9999
IsAnonName(t) ==
  /\ Len(t) = 9
  /\ SubSeq(t, 1, 5) = <<"a","n","o","n","-">>
  /\ \A i \in 6..9 : t[i] \in Digit
  /\ t[6] # "0"

\* the step reads an enum-item line in enum mode
ReadsItemLine ==
  /\ pc = "parse" /\ pc' = "parse"
  /\ Len(lines') = Len(lines) + 1
  /\ Truthy(in_enum)
  /\ IsItemLine(lines'[Len(lines')])

\* C19: an enum-item line read in enum mode appends its member name; it
\* gives the enum its typeName if it is the first item line of the block
\* (its type token, or anon-NNNN with NNNN in 1000..9999 if it has none),
\* and leaves the typeName as it is otherwise, type token or not
C19_TypeNameByFirstItem ==
  [][ReadsItemLine =>
       LET line == lines'[Len(lines')]
       IN  /\ enum'.enum = Append(enum.enum, MemberOn(line))
           /\ DOMAIN enum' = {"enum", "type"}
           /\ IF "type" \in DOMAIN enum THEN enum'.type = enum.type
              ELSE IF TypeOn(line) # None THEN enum'.type = TypeOn(line)
              ELSE IsAnonName(enum'.type)]_vars

\* a second item line with another type token has been read
C19_Witness ==
  /\ pc = "parse"
  /\ lines = <<L_constOpen, L_item, L_itemOther>>
  /\ enum = [enum |-> << <<"X">>, <<"Z">> >>, type |-> <<"S","t">>]

\* write_enum has just returned from the enum that the n-th close ended
EnumWritten(n) ==
  /\ pc = "returned" /\ call = "write_enum"
  /\ written = Len(classlist) + n
  /\ n \in 1..Len(enumlist)

\* the lines between places o and c are item lines with a type token, and
\* there is one at least
TypedItemsBetween(o, c) ==
  /\ o + 1 < c
  /\ \A i \in (o + 1)..(c - 1) :
       IsItemLine(lines[i]) /\ TypeOn(lines[i]) # None

\* export enum <type> { and one line per member name, with no value
EnumText(type, members) ==
  <<"e","x","p","o","r","t"," ","e","n","u","m"," ">> \o type \o <<" ","{","\n">>
    \o Join(<<>>, [i \in 1..Len(members) |->
                     <<" "," ">> \o members[i] \o <<",","\n">>])
    \o <<"}","\n">>

\* C11: the enum written for a closed const block whose lines are item
\* lines with a type token is named after the type of the block, that of
\* its first item line, and lists the member name of every item line once,
\* in the order of the lines, with none of their values
C11_EnumMembersInOrder ==
  \A n \in 1..Len(enumlist) :
    (EnumWritten(n) /\ TypedItemsBetween(OpenOf(NthClose(n)), NthClose(n)))
      => LET o == OpenOf(NthClose(n))
             type == TypeOn(lines[o + 1])
         IN  ContentAt(PathJoin(outdir, _to_dash_name(type) \o S_ts))
               = EnumText(type, MembersBetween(o, NthClose(n)))

\* the block X St = 1, Z Kd has been written as enum St with X and Z
C11_Witness ==
  /\ EnumWritten(1)
  /\ lines = <<L_constOpen, L_item, L_itemOther, L_close>>
  /\ fs = {[path |-> <<"o","u","t","/","s","t",".","t","s">>,
            content |-> <<"e","x","p","o","r","t"," ","e","n","u","m"," ","S","t"," ","{","\n"," "," ","X",",","\n"," "," ","Z",",","\n","}","\n">>]}

(***************************************************************************)
(* Claims about the lines of parse, under Spec.                            *)
(***************************************************************************)
\* the fields of all the classes of cl, one after another
RECURSIVE AllFields(_)
AllFields(cl) ==
  IF cl = <<>> THEN <<>> ELSE cl[1].fields \o AllFields(Tail(cl))

\* a tagged-field line: re_field finds a field on it and neither re_class
\* nor re_ptr takes it first
IsTaggedFieldLine(line) ==
  /\ ~SearchesOf(line).class.ok
  /\ ~SearchesOf(line).ptr.ok
  /\ SearchesOf(line).field.ok

\* the step is one turn of the loop of parse, on the line lines'[Len(lines')]
ReadsLine == pc = "parse" /\ Len(lines') = Len(lines) + 1

S_omitempty ==
  <<",","o","m","i","t","e","m","p","t","y","\"">>

\* C12: a tagged-field line appends one FieldDescriptor, and only one; it
\* is optional if and only if its json tag holds omitempty, and its
\* serializedName is the name of the tag, which is not empty
C12_TaggedFieldAppended ==
  [][(ReadsLine /\ IsTaggedFieldLine(lines'[Len(lines')]))
       => LET line  == lines'[Len(lines')]
              after == AllFields(classlist')
          IN  /\ Len(after) = Len(AllFields(classlist)) + 1
              /\ info' \in 1..Len(classlist')
              /\ LET fields == classlist'[info'].fields
                     f == fields[Len(fields)]
                 IN  /\ fields # <<>>
                     /\ Truthy(f.optional) <=> Contains(line, S_omitempty)
                     /\ f.json # <<>>
                     /\ Contains(line, <<"j","s","o","n",":","\"">> \o f.json)
     ]_vars

\* the step leaves the classes alone
ClassesSame == classlist' = classlist /\ info' = info

\* the step leaves the enums, the enum under construction and the
\* enum-mode flag alone
EnumsSame == enum' = enum /\ in_enum' = in_enum /\ enumlist' = enumlist

\* C17: one recognizer at most takes a line, the first in the order
\* struct-open, embedded-pointer, tagged field, enum-open and, in enum mode
\* only, enum-close, enum-item; the line does what this recognizer does and
\* nothing else, so that a struct-open, embedded-pointer or tagged-field
\* line read in enum mode leaves the enum and the enum-mode flag as they are
C17_OneRecognizerPerLine ==
  [][ReadsLine =>
       LET m == SearchesOf(lines'[Len(lines')])
       IN  IF m.class.ok THEN
             /\ Len(classlist') = Len(classlist) + 1
             /\ SubSeq(classlist', 1, Len(classlist)) = classlist
             /\ EnumsSame
           ELSE IF m.ptr.ok \/ m.field.ok THEN
             /\ Len(classlist') = Len(classlist)
             /\ Len(AllFields(classlist')) <= Len(AllFields(classlist)) + 1
             /\ exc' = NoExc =>
                  Len(AllFields(classlist')) = Len(AllFields(classlist)) + 1
             /\ EnumsSame
           ELSE IF m.enum_open.ok THEN
             /\ ClassesSame /\ enumlist' = enumlist
             /\ Truthy(in_enum') /\ enum' = [enum |-> <<>>]
           ELSE IF Truthy(in_enum) /\ m.enum_close.ok THEN
             /\ ClassesSame
             /\ enumlist' = Append(enumlist, enum)
             /\ ~Truthy(in_enum')
           ELSE IF Truthy(in_enum) /\ m.enum_item.ok THEN
             /\ ClassesSame /\ enumlist' = enumlist
             /\ Len(enum'.enum) = Len(enum.enum) + 1
             /\ Truthy(in_enum')
           ELSE ClassesSame /\ EnumsSame]_vars

\* a tagged-field line, which re_enum_item matches too, read in enum mode:
\* the field is appended and the enum under construction is still empty
C17_Witness ==
  /\ pc = "parse"
  /\ lines = <<L_structA, L_constOpen, L_field>>
  /\ Len(classlist[1].fields) = 1
  /\ in_enum = PyTrue
  /\ enum = [enum |-> <<>>]

\* C18: a line leaves every class but the last as it is and the name of
\* the last too; an embedded-pointer or tagged-field line read after a
\* struct-open line appends its field at the end of the fields of the last
\* class, and no other line changes them
C18_FieldsToLastClass ==
  [][(ReadsLine /\ classlist # <<>>) =>
       LET line  == lines'[Len(lines')]
           last  == Len(classlist)
       IN  /\ Len(classlist') >= last
           /\ \A i \in 1..(last - 1) : classlist'[i] = classlist[i]
           /\ classlist'[last].classname = classlist[last].classname
           /\ IF IsFieldLine(line)
              THEN /\ Len(classlist') = last
                   /\ Len(classlist'[last].fields)
                        = Len(classlist[last].fields) + 1
                   /\ SubSeq(classlist'[last].fields, 1,
                             Len(classlist[last].fields))
                        = classlist[last].fields
                   /\ Contains(line,
                        classlist'[last].fields[
                          Len(classlist'[last].fields)].type)
              ELSE classlist'[last].fields = classlist[last].fields]_vars

\* a field line read after a second struct-open line: the first class has
\* no field and the second has one
C18_Witness ==
  /\ pc = "parse"
  /\ lines = <<L_structA, L_structB, L_field>>
  /\ classlist[1].fields = <<>>
  /\ Len(classlist[2].fields) = 1

(***************************************************************************)
(* A call of _to_dash_name alone, and a second call on what the first      *)
(* returned, for every name of at most MaxNameLen of the characters        *)
(* NameChars.  A name reaches _to_dash_name from group class of re_class   *)
(* or group type of re_enum_item.                                          *)
(***************************************************************************)
MaxNameLen == 4

NameChars == {"A", "B", "a", "b", "1", "-"}

RECURSIVE NamesOf(_)
NamesOf(n) ==
  IF n = 0 THEN {<<>>}
  ELSE NamesOf(n - 1)
         \cup {Append(s, c) : s \in NamesOf(n - 1), c \in NameChars}

DashInit ==
  /\ pc = "dash"
  /\ argc = 0
  /\ k = 0
  /\ lines = <<>>
  /\ classlist = <<>>
  /\ enumlist = <<>>
  /\ info = 0
  /\ enum = EmptyDict
  /\ in_enum = PyFalse
  /\ written = 0
  /\ fs = {}
  /\ out = <<>>
  /\ call = ""
  /\ exc = NoExc
  /\ ty_in \in NamesOf(MaxNameLen)
  /\ ty_out = None

\* _to_dash_name(ty_in)
Hyphenate ==
  /\ pc = "dash"
  /\ ty_out' = _to_dash_name(ty_in)
  /\ call' = "_to_dash_name"
  /\ pc' = "dashed"
  /\ UNCHANGED <<argc, k, lines, classlist, enumlist, info, enum, in_enum,
                 written, fs, out, exc, ty_in>>

\* _to_dash_name of what the first call returned
HyphenateAgain ==
  /\ pc = "dashed"
  /\ ty_in' = ty_out
  /\ ty_out' = _to_dash_name(ty_out)
  /\ pc' = "redashed"
  /\ UNCHANGED <<argc, k, lines, classlist, enumlist, info, enum, in_enum,
                 written, fs, out, call, exc>>

DashNext == Hyphenate \/ HyphenateAgain

SpecDash == DashInit /\ [][DashNext]_vars

\* C15: _to_dash_name of what _to_dash_name returned is the same string; a
\* name of lower-case letters, digits and hyphens is returned as it is; no
\* upper-case letter is in what it returns
C15_DashNameIdempotent ==
  /\ pc = "redashed" => ty_out = ty_in
  /\ pc = "dashed" =>
       ((\A i \in 1..Len(ty_in) : ty_in[i] \in Lower \cup Digit \cup {"-"})
          => ty_out = ty_in)
  /\ pc \in {"dashed", "redashed"} =>
       \A i \in 1..Len(ty_out) : ty_out[i] \notin Upper

\* aB1A gives a-b1-a, and a-b1-a gives a-b1-a
C15_Witness ==
  /\ pc = "redashed"
  /\ ty_in = <<"a","-","b","1","-","a">>
  /\ ty_out = ty_in

(***************************************************************************)
(* A run of _main on up to MaxInputs inputs of at most MaxMainLines lines  *)
(* each, whose structs and enums hyphenate to one file name.               *)
(***************************************************************************)
MaxInputs == 2

MaxMainLines == 3

MainLines == {L_structB, L_structC, L_constOpen, L_itemU, L_close}

\* args.input holds one input at least (nargs='+', line 40)
MainInit ==
  /\ pc = "main"
  /\ argc \in 1..MaxInputs
  /\ k = 0
  /\ lines = <<>>
  /\ classlist = <<>>
  /\ enumlist = <<>>
  /\ info = 0
  /\ enum = EmptyDict
  /\ in_enum = PyFalse
  /\ written = 0
  /\ fs = {}
  /\ out = <<>>
  /\ call = ""
  /\ exc = NoExc
  /\ ty_in = <<>>
  /\ ty_out = None

ReadMainLine == ParseLine(MainLines, MaxMainLines)

MainNext ==
  \/ ParseOpen
  \/ ParseOpenFails
  \/ ReadMainLine
  \/ ParseReturn
  \/ NoClassesFound
  \/ WriteClass
  \/ WriteEnum
  \/ NextInput
  \/ Exit

SpecMain == MainInit /\ [][MainNext]_vars

(***************************************************************************)
(* Claims about _main: C13 under SpecEnum, C14 and C16 under SpecMain.     *)
(***************************************************************************)
Writers == {"write_class", "write_enum"}

\* the diagnostic that names input i
Diagnostic(i) == S_noClasses \o InputName(i)

\* how many times the run has printed text
Printed(text) == Cardinality({i \in 1..Len(out) : out[i] = text})

\* the run is through with input k: it is back in the loop over the inputs
\* or has left it, or a writer has raised
InputDone ==
  \/ pc \in {"main", "done"} /\ k >= 1 /\ call # "" /\ exc = NoExc
  \/ pc = "raised" /\ call \in Writers

\* C13: once the run is through with an input for which parse returned no
\* class and no enum, it has called no writer for it and has printed the
\* diagnostic that names it once; for any other input it has not printed
\* the diagnostic and has called a writer once for each class and once for
\* each enum.  No file changes on the step that prints the diagnostic
C13_DiagnosticOrEmit ==
  /\ [](InputDone =>
          IF classlist = <<>> /\ enumlist = <<>>
          THEN written = 0 /\ Printed(Diagnostic(k)) = 1
          ELSE /\ Printed(Diagnostic(k)) = 0
               /\ written = Len(classlist) + Len(enumlist))
  /\ [][out' # out => (fs' = fs /\ written = 0 /\ written' = 0)]_vars

\* what the i-th writer call of _main for the current input does: the
\* classes in the order of classlist, then the enums in that of enumlist
WriterCall(i) ==
  IF i <= Len(classlist)
  THEN write_class(outdir, classlist[i])
  ELSE write_enum(outdir, enumlist[i - Len(classlist)])

\* the first n writer calls, in order
RECURSIVE WriterCalls(_)
WriterCalls(n) ==
  IF n = 0 THEN <<>> ELSE Append(WriterCalls(n - 1), WriterCall(n))

\* the last of calls that wrote to path p
LastTo(calls, p) ==
  CHOOSE j \in 1..Len(calls) :
    /\ calls[j].opened /\ calls[j].path = p
    /\ \A h \in (j + 1)..Len(calls) :
         ~(calls[h].opened /\ calls[h].path = p)

\* C14: the file at a path that descriptors of the current input were
\* written to holds what the last of them is rendered as, in the order
\* classes then enums; a writer call changes no file but the one at its
\* path, which it replaces if it is there already, prints nothing and
\* raises nothing because of a file that is there
C14_LastWriterWins ==
  /\ [](\A calls \in {WriterCalls(written)} :
          \A i \in 1..Len(calls) :
            calls[i].opened =>
              ContentAt(calls[i].path)
                = calls[LastTo(calls, calls[i].path)].content)
  /\ [][IF written' = written + 1
        THEN /\ out' = out
             /\ \A w \in {WriterCall(written')} :
                  w.opened =>
                    /\ exc' = NoExc
                    /\ \A f \in fs : f.path # w.path => f \in fs'
                    /\ \A f \in fs' : f.path # w.path => f \in fs
                    /\ Cardinality({f \in fs' : f.path = w.path}) = 1
        ELSE fs' = fs]_vars

\* the classes UserId and userId of the second input, both written to
\* out/user-id.ts: the file holds the class userId
C14_Witness ==
  /\ pc = "returned"
  /\ k = 2
  /\ lines = <<L_structB, L_structC>>
  /\ written = 2
  /\ fs = {[path |-> <<"o","u","t","/","u","s","e","r","-","i","d",".","t","s">>,
            content |-> <<"e","x","p","o","r","t"," ","c","l","a","s","s"," ","u","s","e","r","I","d"," ","{","\n","}","\n">>]}

\* C16: when an input cannot be opened the IOError ends the run: the step
\* that raises it writes no file and prints nothing, and no step follows
\* it, so that the input is not tried again, nothing is written for it and
\* the files written for the inputs before it stay as they are
C16_UnreadableInputFatal ==
  [][/\ exc # "IOError"
     /\ exc' = "IOError" =>
          /\ pc' = "raised"
          /\ fs' = fs /\ out' = out]_vars

\* the second input cannot be opened after the first was written
C16_Witness ==
  /\ pc = "raised" /\ exc = "IOError"
  /\ k = 2
  /\ fs # {}

=============================================================================
